---- MODULE Spec2Model ----
(***************************************************************************)
(* Model of the invoice extraction engine of quadra-invoice:               *)
(*   src/app.py                            extract_invoice_data and the    *)
(*                                         simple charge parsers           *)
(*   src/pages/3_Telstra_Mobile_Summary.py parse_telstra_pdf               *)
(*                                                                         *)
(* A document (pdf) is a sequence of pages; a page is its text, a sequence *)
(* of lines, and its tables.  A line is kept as the pieces the patterns of *)
(* the parsers look at: the shape of the line (kind), a number span (num), *)
(* its free words (words) and up to two amount tokens (a1, a2).  Number    *)
(* spans and amount tokens are sequences of one-character strings, so the  *)
(* regular expressions, str.replace, re.sub and float() are computed on    *)
(* characters.  Money is counted in cents.                                 *)
(***************************************************************************)
EXTENDS Integers, Sequences, FiniteSets, TLC

VARIABLES
    pdf,             \* the document: sequence of pages [text, tables]
    pc,              \* position of the running function
    provider,        \* second component of extract_invoice_data's result
    data,            \* rows appended so far by a simple charge parser
    current_number,  \* parse_telstra: identifier of the current block
    pi,              \* index of the page the loop is at (1-based)
    li,              \* index of the line / match within the page
    ti,              \* parse_telstra_pdf: index of the table within the page
    mobile,          \* parse_telstra_pdf: key the page is attributed to
    mobiles,         \* parse_telstra_pdf: defaultdict identifier -> record
    df,              \* parse_telstra_pdf: the finalized table
    raised           \* exception that left the function, "" when none

vars == <<pdf, pc, provider, data, current_number, pi, li, ti, mobile, mobiles, df, raised>>

----------------------------------------------------------------------------
(* Bounds of the model *)

MaxPages == 2
MaxLines == 4

----------------------------------------------------------------------------
(* Characters and numbers *)

Digits == {"0", "1", "2", "3", "4", "5", "6", "7", "8", "9"}

DigitVal == "0" :> 0 @@ "1" :> 1 @@ "2" :> 2 @@ "3" :> 3 @@ "4" :> 4 @@
            "5" :> 5 @@ "6" :> 6 @@ "7" :> 7 @@ "8" :> 8 @@ "9" :> 9

\* Python None / a pattern that did not match, for character spans
None == <<>>

\* Python None for a spend field
Absent == -1

IsDigit(c) == c \in Digits

AllIn(s, S) == \A i \in 1..Len(s) : s[i] \in S

Count(s, c) == Cardinality({i \in 1..Len(s) : s[i] = c})

\* s.replace(c, "")
Remove(s, c) == SelectSeq(s, LAMBDA x : x # c)

\* re.sub(r"\D", "", s)
OnlyDigits(s) == SelectSeq(s, IsDigit)

\* s[-n:]
LastN(s, n) == IF Len(s) <= n THEN s ELSE SubSeq(s, Len(s) - n + 1, Len(s))

RECURSIVE IntVal(_)
IntVal(s) == IF s = <<>> THEN 0
             ELSE 10 * IntVal(SubSeq(s, 1, Len(s) - 1)) + DigitVal[s[Len(s)]]

DotPos(s) == IF \E i \in 1..Len(s) : s[i] = "."
             THEN CHOOSE i \in 1..Len(s) : s[i] = "." /\ \A j \in 1..(i - 1) : s[j] # "."
             ELSE Len(s) + 1

\* float(s) succeeds: digits with at most one point and at least one digit
FloatOk(s) == /\ AllIn(s, Digits \cup {"."})
              /\ Count(s, ".") <= 1
              /\ \E i \in 1..Len(s) : IsDigit(s[i])

\* float(s) in cents, for a token float() accepts (at most two decimals kept)
FloatVal(s) ==
    LET d    == DotPos(s)
        ip   == SubSeq(s, 1, d - 1)
        fr   == SubSeq(s, d + 1, Len(s))
        fr2  == IF Len(fr) = 0 THEN <<"0", "0">>
                ELSE IF Len(fr) = 1 THEN <<fr[1], "0">>
                ELSE SubSeq(fr, 1, 2)
    IN  100 * IntVal(ip) + IntVal(fr2)

\* round(spend / 1.1, 2) on cents: nearest cent (a tie cannot occur)
ExclOf(spend) == (20 * spend + 11) \div 22

\* [\d,]*\.\d{2}
MatchMoney(s) ==
    /\ Len(s) >= 3
    /\ s[Len(s) - 2] = "."
    /\ IsDigit(s[Len(s) - 1]) /\ IsDigit(s[Len(s)])
    /\ AllIn(SubSeq(s, 1, Len(s) - 3), Digits \cup {","})

\* \d+
MatchInt(s) == Len(s) >= 1 /\ AllIn(s, Digits)

----------------------------------------------------------------------------
(* Lines, pages and documents *)

Line(kind, num, words, a1, a2) ==
    [kind |-> kind, num |-> num, words |-> words, a1 |-> a1, a2 |-> a2]

\* The text of each kind of line:
\*   "mobile"  : Mobile <num> <words> [$<a1> $<a2>]
\*   "charge"  : <words> $<a1> $<a2>
\*   "on"      : <num> on $<a1> <words>
\*   "tmc"     : Total Monthly Charges $<a1>
\*   "service" : <words> <num> [$<a1>]
\*   "text"    : <words>
Page(text, tables) == [text |-> text, tables |-> tables]

HasWord(line, w) == \E i \in 1..Len(line.words) : line.words[i] = w

\* The ways to cut n lines into p pages: the index of the last line of each page
Cuts(n, p) == {c \in [1..p -> 0..n] :
                  /\ p > 0 => c[p] = n
                  /\ \A k \in 1..(p - 1) : c[k] <= c[k + 1]}

PageText(s, c, k) == SubSeq(s, (IF k = 1 THEN 0 ELSE c[k - 1]) + 1, c[k])

\* The document of the lines s cut into pages at c, without tables
MakeDoc(s, c) == [k \in 1..Len(c) |-> Page(PageText(s, c, k), <<>>)]

\* pdf is a document of at most MaxPages pages and MaxLines lines in all
IsDocOver(pool) ==
    \E n \in 0..MaxLines : \E s \in [1..n -> pool] :
        \E p \in 0..MaxPages : \E c \in Cuts(n, p) :
            pdf = MakeDoc(s, c)

\* text.splitlines() of every page, one after the other
RECURSIVE Flat(_)
Flat(d) == IF d = <<>> THEN <<>> ELSE d[1].text \o Flat(Tail(d))

\* Number of lines on the pages before page p
RECURSIVE LinesBefore(_, _)
LinesBefore(d, p) == IF p <= 1 THEN 0
                     ELSE LinesBefore(d, p - 1) + (IF p - 1 <= Len(d) THEN Len(d[p - 1].text) ELSE 0)

----------------------------------------------------------------------------
(* extract_invoice_data: the words of the full text and the carrier markers *)

\* str.lower() on the words that occur in the model's documents
Lower(w) ==
    CASE w = "Telstra.com"  -> "telstra.com"
      [] w = "Telstra"      -> "telstra"
      [] w = "Limited"      -> "limited"
      [] w = "Optus"        -> "optus"
      [] w = "Billing"      -> "billing"
      [] w = "Services"     -> "services"
      [] w = "Vodafone"     -> "vodafone"
      [] w = "Pty"          -> "pty"
      [] w = "Business"     -> "business"
      [] w = "Mobile"       -> "mobile"
      [] w = "Plan"         -> "plan"
      [] w = "Bundle"       -> "bundle"
      [] w = "Data"         -> "data"
      [] w = "Plus"         -> "plus"
      [] w = "M2M"          -> "m2m"
      [] w = "Extra"        -> "extra"
      [] w = "Red"          -> "red"
      [] w = "Service"      -> "service"
      [] w = "Total"        -> "total"
      [] w = "National"     -> "national"
      [] w = "Direct"       -> "direct"
      [] w = "Itemised"     -> "itemised"
      [] OTHER              -> w

\* The words of a line, in reading order, that the carrier markers are sought in
LineWords(line) == line.words

RECURSIVE TextWords(_)
TextWords(text) ==
    IF text = <<>> THEN <<>>
    ELSE IF Len(text) = 1 THEN LineWords(text[1])
    ELSE LineWords(text[1]) \o <<"\n">> \o TextWords(Tail(text))

\* " ".join([p.extract_text() or "" for p in pdf.pages]), as words
RECURSIVE FullWords(_)
FullWords(d) ==
    IF d = <<>> THEN <<>>
    ELSE IF Len(d) = 1 THEN TextWords(d[1].text)
    ELSE TextWords(d[1].text) \o FullWords(Tail(d))

\* marker in text
Contains(ws, marker) ==
    \E i \in 1..(Len(ws) - Len(marker) + 1) :
        \A j \in 1..Len(marker) : ws[i + j - 1] = marker[j]

LowerAll(ws) == [i \in 1..Len(ws) |-> Lower(ws[i])]

IsTelstra(ws) == \/ Contains(ws, <<"Telstra", "Limited">>)
                 \/ Contains(LowerAll(ws), <<"telstra.com">>)

IsOptus(ws) == \/ Contains(ws, <<"Optus", "Billing", "Services">>)
               \/ Contains(ws, <<"Optus">>)

IsVodafone(ws) == \/ Contains(ws, <<"Vodafone">>)
                  \/ Contains(ws, <<"Vodafone", "Pty">>)

ProviderOfMutOptusFirst(ws) ==
    IF IsOptus(ws) THEN "Optus"
    ELSE IF IsTelstra(ws) THEN "Telstra"
    ELSE IF IsVodafone(ws) THEN "Vodafone"
    ELSE "Unknown"

ProviderOf(ws) ==
    IF IsTelstra(ws) THEN "Telstra"
    ELSE IF IsOptus(ws) THEN "Optus"
    ELSE IF IsVodafone(ws) THEN "Vodafone"
    ELSE "Unknown"

\* The function the selected branch calls; "done" for pd.DataFrame(), "Unknown"
EntryOf(p) == CASE p = "Telstra"  -> "parse_telstra"
                [] p = "Optus"    -> "parse_optus"
                [] p = "Vodafone" -> "parse_vodafone"
                [] OTHER          -> "done"

Extract ==
    /\ pc = "extract"
    /\ provider' = ProviderOf(FullWords(pdf))
    /\ pc' = EntryOf(provider')
    /\ UNCHANGED <<pdf, data, current_number, pi, li, ti, mobile, mobiles, df, raised>>

\* Position of the loop "for page ... for line ..." after the line at (pi, li)
NextPi == IF li < Len(pdf[pi].text) THEN pi ELSE pi + 1
NextLi == IF li < Len(pdf[pi].text) THEN li + 1 ELSE 1

\* Lines the loops have gone through so far
Processed == LinesBefore(pdf, pi) + (li - 1)

----------------------------------------------------------------------------
(* parse_telstra *)

DigitsAt(s, i, n) == i + n - 1 <= Len(s) /\ AllIn(SubSeq(s, i, i + n - 1), Digits)

SpaceAt(s, i) == i <= Len(s) /\ s[i] = " "

\* End of the match of \d{4}\s?\d{3}\s?\d{3} at the start of s, 0 when none
MobileSpanEnd(s) ==
    LET q1 == IF SpaceAt(s, 5) THEN 6 ELSE 5
        q2 == IF SpaceAt(s, q1 + 3) THEN q1 + 4 ELSE q1 + 3
    IN  IF DigitsAt(s, 1, 4) /\ DigitsAt(s, q1, 3) /\ DigitsAt(s, q2, 3)
        THEN q2 + 2 ELSE 0

\* re.search(r"Mobile (\d{4}\s?\d{3}\s?\d{3})", line): group(1), None when no match
Mnum(line) ==
    IF line.kind = "mobile" /\ MobileSpanEnd(line.num) > 0
    THEN SubSeq(line.num, 1, MobileSpanEnd(line.num))
    ELSE None

\* "Business" in line and ("Plan" in line or "Bundle" in line)
IsPlanLine(line) ==
    HasWord(line, "Business") /\ (HasWord(line, "Plan") \/ HasWord(line, "Bundle"))

\* re.match(r"(.+?)\s+\$([\d,]*\.\d{2})\s+\$([\d,]*\.\d{2})", line)
ChargeMatch(line) ==
    /\ line.kind \in {"charge", "mobile"}
    /\ line.words # <<>>
    /\ MatchMoney(line.a1) /\ MatchMoney(line.a2)

TelstraRow(number, line) ==
    [MobileNumber |-> number,
     PlanName     |-> line.words,
     SpendExclGST |-> FloatVal(Remove(line.a1, ",")),
     SpendInclGST |-> FloatVal(Remove(line.a2, ","))]

\* if not text: continue
TelstraSkipPage ==
    /\ pc = "parse_telstra"
    /\ pi <= Len(pdf)
    /\ pdf[pi].text = <<>>
    /\ pi' = pi + 1
    /\ li' = 1
    /\ UNCHANGED <<pdf, pc, provider, data, current_number, ti, mobile, mobiles, df, raised>>

NewCurrentMutKeepFirst(cur, line) == IF cur = None THEN Remove(Mnum(line), " ") ELSE cur

\* current_number = mnum.group(1).replace(" ", "")
NewCurrent(cur, line) == Remove(Mnum(line), " ")

\* One iteration of "for line in lines"
TelstraLine ==
    /\ pc = "parse_telstra"
    /\ pi <= Len(pdf)
    /\ li <= Len(pdf[pi].text)
    /\ LET line == pdf[pi].text[li] IN
         \/ /\ Mnum(line) # None
            /\ current_number' = NewCurrent(current_number, line)
            /\ data' = data
         \/ /\ Mnum(line) = None
            /\ IsPlanLine(line) /\ ChargeMatch(line) /\ current_number # None
            /\ data' = Append(data, TelstraRow(current_number, line))
            /\ current_number' = current_number
         \/ /\ Mnum(line) = None
            /\ ~(IsPlanLine(line) /\ ChargeMatch(line) /\ current_number # None)
            /\ UNCHANGED <<data, current_number>>
    /\ pi' = NextPi
    /\ li' = NextLi
    /\ UNCHANGED <<pdf, pc, provider, ti, mobile, mobiles, df, raised>>

\* return pd.DataFrame(data)
TelstraReturn ==
    /\ pc = "parse_telstra"
    /\ pi > Len(pdf)
    /\ pc' = "done"
    /\ UNCHANGED <<pdf, provider, data, current_number, pi, li, ti, mobile, mobiles, df, raised>>

----------------------------------------------------------------------------
(* Telstra documents of the simple charge mode *)

NumA == <<"0", "4", "0", "0", " ", "9", "3", "6", " ", "2", "9", "6">>
NumB == <<"0", "4", "1", "1", "2", "2", "2", "3", "3", "3">>

Amt6364 == <<"6", "3", ".", "6", "4">>
Amt7000 == <<"7", "0", ".", "0", "0">>
Amt1k   == <<"1", ",", "2", "3", "4", ".", "0", "0">>

TelstraPool ==
    { Line("text", None, <<"Telstra", "Limited">>, None, None),
      Line("mobile", NumA, <<>>, None, None),
      Line("mobile", NumB, <<"Business", "Plan">>, Amt6364, Amt7000),
      Line("charge", None, <<"Business", "Mobile", "Plan">>, Amt6364, Amt7000),
      Line("charge", None, <<"Business", "Bundle">>, Amt7000, Amt1k),
      Line("charge", None, <<"Data", "Plan">>, Amt6364, Amt7000) }

InitApp(pool) ==
    /\ IsDocOver(pool)
    /\ pc = "extract"
    /\ provider = ""
    /\ data = <<>>
    /\ current_number = None
    /\ pi = 1
    /\ li = 1
    /\ ti = 1
    /\ mobile = None
    /\ mobiles = <<>>
    /\ df = <<>>
    /\ raised = ""

InitTelstra == InitApp(TelstraPool)

NextTelstra == Extract \/ TelstraSkipPage \/ TelstraLine \/ TelstraReturn

SpecTelstra == InitTelstra /\ [][NextTelstra]_vars

----------------------------------------------------------------------------
(* parse_optus *)

\* 04\d{8}
MatchOptusNum(s) == Len(s) = 10 /\ s[1] = "0" /\ s[2] = "4" /\ AllIn(s, Digits)

\* [\d,]*\.\d{2}|\d+
MatchOnAmount(s) == MatchMoney(s) \/ MatchInt(s)

\* Index of the first "M2M" that has plan text before it, 0 when none: .+?M2M
M2MPos(ws) ==
    IF \E k \in 2..Len(ws) : ws[k] = "M2M"
    THEN CHOOSE k \in 2..Len(ws) : ws[k] = "M2M" /\ \A j \in 2..(k - 1) : ws[j] # "M2M"
    ELSE 0

\* The line is a match of r"(04\d{8}) on \$([\d,]*\.\d{2}|\d+)\s+(.+?M2M)"
OptusMatch(line) ==
    /\ line.kind = "on"
    /\ MatchOptusNum(line.num)
    /\ MatchOnAmount(line.a1)
    /\ M2MPos(line.words) > 0

\* The number occurs in the text of the line
HasNumber(line, number) == line.kind \in {"on", "service", "mobile"} /\ line.num = number

\* Longest prefix of s made of the characters of [\d\.]
RECURSIVE DigitsDotsPrefix(_)
DigitsDotsPrefix(s) ==
    IF s # <<>> /\ s[1] \in Digits \cup {"."}
    THEN <<s[1]>> \o DigitsDotsPrefix(Tail(s))
    ELSE <<>>

\* The line holds "Total Monthly Charges" + \s+\$([\d\.]+)
IsTmc(line) == line.kind = "tmc" /\ DigitsDotsPrefix(line.a1) # <<>>

\* First index in ls from which the number occurs, 0 when it does not
FirstOcc(ls, number) ==
    IF \E i \in 1..Len(ls) : HasNumber(ls[i], number)
    THEN CHOOSE i \in 1..Len(ls) :
            HasNumber(ls[i], number) /\ \A j \in 1..(i - 1) : ~HasNumber(ls[j], number)
    ELSE 0

\* re.search(rf"{number}.*?Total Monthly Charges\s+\$([\d\.]+)", full_text, re.S):
\* the index of the line of the match's amount, 0 when there is no match
DiscMatch(ls, number) ==
    LET i0 == FirstOcc(ls, number)
    IN  IF i0 > 0 /\ \E j \in (i0 + 1)..Len(ls) : IsTmc(ls[j])
        THEN CHOOSE j \in (i0 + 1)..Len(ls) :
                IsTmc(ls[j]) /\ \A k \in (i0 + 1)..(j - 1) : ~IsTmc(ls[k])
        ELSE 0

\* The string handed to float(): disc_match.group(1) if disc_match else raw_price
OptusSpendToken(ls, line) ==
    LET j == DiscMatch(ls, line.num)
    IN  IF j > 0 THEN DigitsDotsPrefix(ls[j].a1) ELSE line.a1

OptusRow(line, spend) ==
    [MobileNumber |-> line.num,
     PlanName     |-> SubSeq(line.words, 1, M2MPos(line.words)),
     SpendExclGST |-> ExclOf(spend),
     SpendInclGST |-> spend]

\* if not text: continue
OptusSkipPage ==
    /\ pc = "parse_optus"
    /\ pi <= Len(pdf)
    /\ pdf[pi].text = <<>>
    /\ pi' = pi + 1
    /\ li' = 1
    /\ UNCHANGED <<pdf, pc, provider, data, current_number, ti, mobile, mobiles, df, raised>>

\* The scan of re.findall over one line of the page, and "for m in matches"
OptusLine ==
    /\ pc = "parse_optus"
    /\ pi <= Len(pdf)
    /\ li <= Len(pdf[pi].text)
    /\ LET line == pdf[pi].text[li]
           tok  == OptusSpendToken(Flat(pdf), line)
       IN
         \/ /\ ~OptusMatch(line)
            /\ pi' = NextPi /\ li' = NextLi
            /\ UNCHANGED <<pc, data, raised>>
         \/ /\ OptusMatch(line)
            /\ FloatOk(tok)
            /\ data' = Append(data, OptusRow(line, FloatVal(tok)))
            /\ pi' = NextPi /\ li' = NextLi
            /\ UNCHANGED <<pc, raised>>
         \/ /\ OptusMatch(line)
            /\ ~FloatOk(tok)
            /\ raised' = "ValueError"
            /\ pc' = "raised"
            /\ UNCHANGED <<data, pi, li>>
    /\ UNCHANGED <<pdf, provider, current_number, ti, mobile, mobiles, df>>

\* return pd.DataFrame(data)
OptusReturn ==
    /\ pc = "parse_optus"
    /\ pi > Len(pdf)
    /\ pc' = "done"
    /\ UNCHANGED <<pdf, provider, data, current_number, pi, li, ti, mobile, mobiles, df, raised>>

----------------------------------------------------------------------------
(* parse_vodafone *)

\* The line is a match of r"(04\d{8}) on \$([\d,]*\.\d{2}|\d+)\s+(.+?)(?:\s|$)"
VodafoneMatch(line) ==
    /\ line.kind = "on"
    /\ MatchOptusNum(line.num)
    /\ MatchOnAmount(line.a1)
    /\ line.words # <<>>

\* The line holds the number and, after it, \$([\d,]*\.\d{2})
HasOverride(line, number) == HasNumber(line, number) /\ MatchMoney(line.a1)

\* re.search(rf"{number}.*?\$([\d,]*\.\d{2})", full_text): the index of the line
\* of the match (the pattern does not cross a line end), 0 when there is no match
Override(ls, number) ==
    IF \E i \in 1..Len(ls) : HasOverride(ls[i], number)
    THEN CHOOSE i \in 1..Len(ls) :
            HasOverride(ls[i], number) /\ \A j \in 1..(i - 1) : ~HasOverride(ls[j], number)
    ELSE 0

\* try: float(s.replace(",", "")) except: keep
FloatOr(s, keep) == IF FloatOk(Remove(s, ",")) THEN FloatVal(Remove(s, ",")) ELSE keep

VodafoneSpend(ls, line) ==
    LET nominal == FloatOr(line.a1, Absent)
        o       == Override(ls, line.num)
    IN  IF o > 0 THEN FloatOr(ls[o].a1, nominal) ELSE nominal

VodafoneRow(line, spend_incl) ==
    [MobileNumber |-> line.num,
     PlanName     |-> <<line.words[1]>>,
     SpendExclGST |-> IF spend_incl # Absent THEN ExclOf(spend_incl) ELSE Absent,
     SpendInclGST |-> spend_incl]

\* if not text: continue
VodafoneSkipPage ==
    /\ pc = "parse_vodafone"
    /\ pi <= Len(pdf)
    /\ pdf[pi].text = <<>>
    /\ pi' = pi + 1
    /\ li' = 1
    /\ UNCHANGED <<pdf, pc, provider, data, current_number, ti, mobile, mobiles, df, raised>>

\* The scan of re.findall over one line of the page, and "for m in matches"
VodafoneLine ==
    /\ pc = "parse_vodafone"
    /\ pi <= Len(pdf)
    /\ li <= Len(pdf[pi].text)
    /\ LET line == pdf[pi].text[li] IN
         \/ /\ ~VodafoneMatch(line)
            /\ data' = data
         \/ /\ VodafoneMatch(line)
            /\ data' = Append(data, VodafoneRow(line, VodafoneSpend(Flat(pdf), line)))
    /\ pi' = NextPi
    /\ li' = NextLi
    /\ UNCHANGED <<pdf, pc, provider, current_number, ti, mobile, mobiles, df, raised>>

\* return pd.DataFrame(data)
VodafoneReturn ==
    /\ pc = "parse_vodafone"
    /\ pi > Len(pdf)
    /\ pc' = "done"
    /\ UNCHANGED <<pdf, provider, data, current_number, pi, li, ti, mobile, mobiles, df, raised>>

----------------------------------------------------------------------------
(* Optus and Vodafone documents *)

NumO1 == <<"0", "4", "0", "3", "0", "6", "1", "6", "6", "8">>
NumO2 == <<"0", "4", "1", "1", "2", "2", "2", "3", "3", "3">>

Amt60   == <<"6", "0">>
Amt8000 == <<"8", "0", ".", "0", "0">>
Amt7500 == <<"7", "5", ".", "0", "0">>
AmtDot  == <<".">>

OptusPool ==
    { Line("text", None, <<"Optus", "Billing", "Services">>, None, None),
      Line("on", NumO1, <<"Business", "Mobile", "Plus", "M2M">>, Amt60, None),
      Line("on", NumO2, <<"Business", "M2M">>, Amt8000, None),
      Line("on", NumO1, <<"Business", "M2M", "Extra", "M2M">>, Amt1k, None),
      Line("on", NumO2, <<"Business", "Mobile">>, Amt60, None),
      Line("tmc", None, <<>>, Amt7500, None),
      Line("tmc", None, <<>>, AmtDot, None) }

VodafonePool ==
    { Line("text", None, <<"Vodafone", "Pty">>, None, None),
      Line("on", NumO1, <<"Red", "Business", "Plan">>, Amt60, None),
      Line("on", NumO1, <<"Red", "Plus">>, Amt1k, None),
      Line("on", NumO2, <<"Red">>, Amt8000, None),
      Line("service", NumO1, <<"Service">>, Amt7500, None),
      Line("service", NumO2, <<"Service">>, None, None),
      Line("tmc", None, <<>>, Amt7500, None) }

InitOptus == InitApp(OptusPool)

NextOptus == Extract \/ OptusSkipPage \/ OptusLine \/ OptusReturn

SpecOptus == InitOptus /\ [][NextOptus]_vars

InitVodafone == InitApp(VodafonePool)

NextVodafone == Extract \/ VodafoneSkipPage \/ VodafoneLine \/ VodafoneReturn

SpecVodafone == InitVodafone /\ [][NextVodafone]_vars

\* Documents that vary the carrier markers
SelectPool ==
    { Line("text", None, <<"Telstra", "Limited">>, None, None),
      Line("text", None, <<"Telstra.com">>, None, None),
      Line("mobile", NumB, <<>>, None, None),
      Line("charge", None, <<"Business", "Mobile", "Plan">>, Amt6364, Amt7000),
      Line("on", NumO1, <<"Optus", "Business", "Mobile", "Plus", "M2M">>, Amt60, None),
      Line("on", NumO2, <<"Vodafone", "Business", "M2M">>, Amt1k, None) }

InitSelect == InitApp(SelectPool)

Next ==
    \/ Extract
    \/ TelstraSkipPage \/ TelstraLine \/ TelstraReturn
    \/ OptusSkipPage \/ OptusLine \/ OptusReturn
    \/ VodafoneSkipPage \/ VodafoneLine \/ VodafoneReturn

\* app.py on any document
Spec == InitSelect /\ [][Next]_vars

----------------------------------------------------------------------------
(* parse_telstra_pdf: the text of a page *)

MaxBody == 2

LowerChar == "A" :> "a" @@ "B" :> "b" @@ "C" :> "c" @@ "D" :> "d" @@ "E" :> "e" @@ "F" :> "f" @@
             "G" :> "g" @@ "H" :> "h" @@ "I" :> "i" @@ "J" :> "j" @@ "K" :> "k" @@ "L" :> "l" @@
             "M" :> "m" @@ "N" :> "n" @@ "O" :> "o" @@ "P" :> "p" @@ "Q" :> "q" @@ "R" :> "r" @@
             "S" :> "s" @@ "T" :> "t" @@ "U" :> "u" @@ "V" :> "v" @@ "W" :> "w" @@ "X" :> "x" @@
             "Y" :> "y" @@ "Z" :> "z"

\* str.lower() on a sequence of characters
LowerStr(s) == [i \in 1..Len(s) |-> IF s[i] \in DOMAIN LowerChar THEN LowerChar[s[i]] ELSE s[i]]

\* str.strip() of spaces
RECURSIVE LStrip(_)
LStrip(s) == IF s # <<>> /\ s[1] = " " THEN LStrip(Tail(s)) ELSE s

RECURSIVE RStrip(_)
RStrip(s) == IF s # <<>> /\ s[Len(s)] = " " THEN RStrip(SubSeq(s, 1, Len(s) - 1)) ELSE s

Strip(s) == RStrip(LStrip(s))

\* Longest prefix of s made of the characters of [0-9 ], at most n long
RECURSIVE DigitsSpacesPrefix(_, _)
DigitsSpacesPrefix(s, n) ==
    IF n > 0 /\ s # <<>> /\ s[1] \in Digits \cup {" "}
    THEN <<s[1]>> \o DigitsSpacesPrefix(Tail(s), n - 1)
    ELSE <<>>

HeaderMin == 8
HeaderMax == 15
KeepDigits == 10

\* Group 1 of r"Mobile\s+([0-9 ]{8,15})" on the line, None when the line has no match
HeaderSpan(line) ==
    IF line.kind = "mobile" /\ Len(DigitsSpacesPrefix(line.num, HeaderMax)) >= HeaderMin
    THEN DigitsSpacesPrefix(line.num, HeaderMax)
    ELSE None

\* m_header = re.search(r"Mobile\s+([0-9 ]{8,15})", text): the index of the line, 0 when none
HeaderLine(text) ==
    IF \E i \in 1..Len(text) : HeaderSpan(text[i]) # None
    THEN CHOOSE i \in 1..Len(text) :
            HeaderSpan(text[i]) # None /\ \A j \in 1..(i - 1) : HeaderSpan(text[j]) = None
    ELSE 0

\* digits = re.sub(r"\D", "", raw); digits[-10:] if len(digits) >= 10 else digits
Normalise(raw) ==
    LET digits == OnlyDigits(raw)
    IN  IF Len(digits) >= KeepDigits THEN LastN(digits, KeepDigits) ELSE digits

\* The key of the page: mobile, for a page that has a header
PageMobile(text) == Normalise(HeaderSpan(text[HeaderLine(text)]))

CountFields == {"NationalDirectCalls", "SMSMobileOriginated", "EnhancedSMS",
                "CallDiversionCalls", "CallsMadeOverseas", "CallsReceivedOverseas",
                "OverseasDataSessions"}

\* The count the line sets: the trigger text of each per-line pattern
CountField(line) ==
    CASE Contains(line.words, <<"National", "Direct">>)         -> "NationalDirectCalls"
      [] Contains(line.words, <<"Mobile", "Originated", "SMS">>) -> "SMSMobileOriginated"
      [] Contains(line.words, <<"Mobile", "Enhanced", "SMS">>)   -> "EnhancedSMS"
      [] Contains(line.words, <<"Call", "Diversion">>)           -> "CallDiversionCalls"
      [] Contains(line.words, <<"Calls", "made", "O/S">>)        -> "CallsMadeOverseas"
      [] Contains(line.words, <<"Calls", "received", "O/S">>)    -> "CallsReceivedOverseas"
      [] Contains(line.words, <<"Data", "Usage", "Overseas">>)   -> "OverseasDataSessions"
      [] OTHER                                                   -> ""

\* The line is a match of one of the patterns r"<trigger>.*?(\d+)\s*calls"
CountMatch(line) == line.kind = "count" /\ CountField(line) # "" /\ MatchInt(line.a1)

\* Groups 1 and 2 of r"Total ... charges\s*\$?\s*([\d.]+)\s*\$?\s*([\d.]+)" on the
\* amounts of the line, <<>> when the pattern does not match
TotalGroups(line) ==
    LET p1 == DigitsDotsPrefix(line.a1)
        p2 == DigitsDotsPrefix(line.a2)
    IN  IF p1 = line.a1 /\ p1 # <<>> /\ p2 # <<>> THEN <<p1, p2>>
        ELSE IF Len(p1) >= 2 THEN <<SubSeq(p1, 1, Len(p1) - 1), <<p1[Len(p1)]>>>>
        ELSE <<>>

\* lambda of the defaultdict
NewRecord(key) ==
    [key |-> key,
     NationalDirectCalls |-> 0, SMSMobileOriginated |-> 0, EnhancedSMS |-> 0,
     CallDiversionCalls |-> 0, CallsMadeOverseas |-> 0, CallsReceivedOverseas |-> 0,
     OverseasDataSessions |-> 0,
     TotalCallChargesExcl |-> 0, TotalCallChargesIncl |-> 0,
     TotalServiceChargesExcl |-> 0, TotalServiceChargesIncl |-> 0,
     TotalWAPVolume |-> 0,
     OverseasCountries |-> {}]

\* Position of key in the dict, 0 when it is not a key
KeyIndex(ms, key) ==
    IF \E i \in 1..Len(ms) : ms[i].key = key
    THEN CHOOSE i \in 1..Len(ms) : ms[i].key = key
    ELSE 0

\* mobiles[mobile] of the defaultdict: the dict after the lookup
Lookup(ms, key) == IF KeyIndex(ms, key) > 0 THEN ms ELSE Append(ms, NewRecord(key))

AddCallMutOverwrite(d, ex, inc) ==
    [d EXCEPT !.TotalCallChargesExcl = ex, !.TotalCallChargesIncl = inc]

\* data["Total Call Charges (Excl GST)"] += ex; data["Total Call Charges (Incl GST)"] += inc
AddCall(d, ex, inc) ==
    [d EXCEPT !.TotalCallChargesExcl = @ + ex, !.TotalCallChargesIncl = @ + inc]

\* data["Total Service Charges (Excl GST)"] += ex; data["Total Service Charges (Incl GST)"] += inc
AddService(d, ex, inc) ==
    [d EXCEPT !.TotalServiceChargesExcl = @ + ex, !.TotalServiceChargesIncl = @ + inc]

\* Both float() calls of a "Total ... charges" match succeed (no ValueError)
TotalOk(line) ==
    /\ line.kind \in {"totcall", "totsvc"}
    /\ TotalGroups(line) # <<>>
    /\ FloatOk(TotalGroups(line)[1]) /\ FloatOk(TotalGroups(line)[2])

\* The body of "for l in lines" on the record of the page
ApplyLine(d, line) ==
    IF CountMatch(line)
    THEN [d EXCEPT ![CountField(line)] = IntVal(line.a1)]
    ELSE IF line.kind = "totcall" /\ TotalOk(line)
    THEN AddCall(d, FloatVal(TotalGroups(line)[1]), FloatVal(TotalGroups(line)[2]))
    ELSE IF line.kind = "totsvc" /\ TotalOk(line)
    THEN AddService(d, FloatVal(TotalGroups(line)[1]), FloatVal(TotalGroups(line)[2]))
    ELSE d

----------------------------------------------------------------------------
(* parse_telstra_pdf: the tables of a page.  A table is its header row and  *)
(* its data rows (tbl[0] and tbl[1:]); a cell is a sequence of characters.   *)

Table(header, rows) == [header |-> header, rows |-> rows]

StrVol         == <<"v", "o", "l">>
StrKb          == <<"k", "b">>
StrDescription == <<"d", "e", "s", "c", "r", "i", "p", "t", "i", "o", "n">>
StrCallType    == <<"c", "a", "l", "l", " ", "t", "y", "p", "e">>
StrDialled     == <<"n", "u", "m", "b", "e", "r", " ", "d", "i", "a", "l", "l", "e", "d">>
StrDialed      == <<"n", "u", "m", "b", "e", "r", " ", "d", "i", "a", "l", "e", "d">>
StrLocation    == <<"l", "o", "c", "a", "t", "i", "o", "n">>
StrOverseas    == <<"d", "a", "t", "a", " ", "u", "s", "a", "g", "e", " ", "o", "v", "e", "r", "s", "e", "a", "s">>
StrGstFree     == <<"g", "s", "t", " ", "f", "r", "e", "e">>
StrWap         == <<"w", "a", "p">>
StrInternet    == <<"i", "n", "t", "e", "r", "n", "e", "t">>

\* header_lower: [(c or "").strip().lower() for c in tbl[0]]
HeaderLower(tbl) == [i \in 1..Len(tbl.header) |-> LowerStr(Strip(tbl.header[i]))]

\* The last index at which flags holds (the loop over the header overwrites), 0 for None
LastIdx(flags) ==
    IF \E i \in 1..Len(flags) : flags[i]
    THEN CHOOSE i \in 1..Len(flags) : flags[i] /\ \A j \in (i + 1)..Len(flags) : ~flags[j]
    ELSE 0

IsVolHeader(h) == Contains(h, StrVol) /\ Contains(h, StrKb)

IsDescHeader(h) == \/ Contains(h, StrDescription) \/ Contains(h, StrCallType)
                   \/ Contains(h, StrDialled) \/ Contains(h, StrDialed)

IsLocationHeader(h) == Contains(h, StrLocation)

VolIdx(tbl) == LastIdx([i \in 1..Len(tbl.header) |-> IsVolHeader(HeaderLower(tbl)[i])])

DescIdx(tbl) == LastIdx([i \in 1..Len(tbl.header) |-> IsDescHeader(HeaderLower(tbl)[i])])

LocationIdx(tbl) == LastIdx([i \in 1..Len(tbl.header) |-> IsLocationHeader(HeaderLower(tbl)[i])])

\* " ".join(cells_lower)
RECURSIVE RowText(_)
RowText(row) ==
    IF row = <<>> THEN <<>>
    ELSE IF Len(row) = 1 THEN LowerStr(row[1])
    ELSE LowerStr(row[1]) \o <<" ">> \o RowText(Tail(row))

\* "data usage overseas" in row_text and "gst free" in row_text
IsOverseasRow(row) ==
    Contains(RowText(row), StrOverseas) /\ Contains(RowText(row), StrGstFree)

\* "wap" in desc_cell or "internet" in desc_cell, for a row that has the cell
IsWapRow(tbl, row) ==
    /\ DescIdx(tbl) <= Len(row)
    /\ \/ Contains(LowerStr(row[DescIdx(tbl)]), StrWap)
       \/ Contains(LowerStr(row[DescIdx(tbl)]), StrInternet)

\* The table is looked at: not (not tbl or len(tbl) < 2), and desc_idx is not None
Considered(tbl) == Len(tbl.rows) >= 1 /\ DescIdx(tbl) > 0

\* is_overseas_data_table after the first pass
IsOverseasTable(tbl) == \E i \in 1..Len(tbl.rows) : IsOverseasRow(tbl.rows[i])

IsWapTableMutAnyCell(tbl) ==
    \E i \in 1..Len(tbl.rows) :
        \/ Contains(RowText(tbl.rows[i]), StrWap)
        \/ Contains(RowText(tbl.rows[i]), StrInternet)

\* is_wap_table after the first pass
IsWapTable(tbl) ==
    /\ ~IsOverseasTable(tbl)
    /\ \E i \in 1..Len(tbl.rows) : IsWapRow(tbl, tbl.rows[i])

\* What one row adds to Total WAP Volume (KB) in the second pass
RowVolume(tbl, row) ==
    IF IsWapTable(tbl) /\ VolIdx(tbl) > 0 /\ VolIdx(tbl) <= Len(row)
    THEN LET vol_cell == Strip(Remove(row[VolIdx(tbl)], ","))
         IN  IF MatchInt(vol_cell) THEN IntVal(vol_cell) ELSE 0
    ELSE 0

RECURSIVE VolumeUpTo(_, _)
VolumeUpTo(tbl, n) ==
    IF n = 0 THEN 0 ELSE VolumeUpTo(tbl, n - 1) + RowVolume(tbl, tbl.rows[n])

\* The labels the second pass adds to Overseas Countries
Locations(tbl) ==
    { Strip(tbl.rows[i][LocationIdx(tbl)]) :
        i \in { k \in 1..Len(tbl.rows) :
                  /\ IsOverseasTable(tbl) /\ IsOverseasRow(tbl.rows[k])
                  /\ LocationIdx(tbl) > 0 /\ LocationIdx(tbl) <= Len(tbl.rows[k])
                  /\ Strip(tbl.rows[k][LocationIdx(tbl)]) # <<>> } }

\* The body of "for tbl in tables" on the record of the page
ApplyTable(d, tbl) ==
    IF Considered(tbl)
    THEN [d EXCEPT !.TotalWAPVolume = @ + VolumeUpTo(tbl, Len(tbl.rows)),
                   !.OverseasCountries = @ \cup Locations(tbl)]
    ELSE d

----------------------------------------------------------------------------
(* parse_telstra_pdf: the final table *)

\* a < b for str
RECURSIVE StrLess(_, _)
StrLess(a, b) ==
    IF b = <<>> THEN FALSE
    ELSE IF a = <<>> THEN TRUE
    ELSE IF a[1] # b[1] THEN DigitVal[a[1]] < DigitVal[b[1]]
    ELSE StrLess(Tail(a), Tail(b))

SummaryRow(d) ==
    [MobileNumber |-> d.key,
     NationalDirectCalls |-> d.NationalDirectCalls,
     SMSMobileOriginated |-> d.SMSMobileOriginated,
     EnhancedSMS |-> d.EnhancedSMS,
     CallDiversionCalls |-> d.CallDiversionCalls,
     CallsMadeOverseas |-> d.CallsMadeOverseas,
     CallsReceivedOverseas |-> d.CallsReceivedOverseas,
     OverseasDataSessions |-> d.OverseasDataSessions,
     TotalCallChargesExcl |-> d.TotalCallChargesExcl,
     TotalCallChargesIncl |-> d.TotalCallChargesIncl,
     TotalServiceChargesExcl |-> d.TotalServiceChargesExcl,
     TotalServiceChargesIncl |-> d.TotalServiceChargesIncl,
     TotalWAPVolume |-> d.TotalWAPVolume,
     OverseasCountries |-> d.OverseasCountries,
     TotalSpendExcl |-> d.TotalCallChargesExcl + d.TotalServiceChargesExcl,
     TotalSpendIncl |-> d.TotalCallChargesIncl + d.TotalServiceChargesIncl]

\* The order of sort_values(["Mobile Number", "Total Spend per Mobile (Incl GST)"])
RowBefore(a, b) ==
    \/ StrLess(a.MobileNumber, b.MobileNumber)
    \/ a.MobileNumber = b.MobileNumber /\ a.TotalSpendIncl < b.TotalSpendIncl

RECURSIVE Insert(_, _)
Insert(sorted, r) ==
    IF sorted = <<>> THEN <<r>>
    ELSE IF RowBefore(r, sorted[1]) THEN <<r>> \o sorted
    ELSE <<sorted[1]>> \o Insert(Tail(sorted), r)

RECURSIVE SortValues(_)
SortValues(rows) ==
    IF rows = <<>> THEN <<>>
    ELSE Insert(SortValues(SubSeq(rows, 1, Len(rows) - 1)), rows[Len(rows)])

\* drop_duplicates(subset=["Mobile Number"], keep="last")
RECURSIVE DropDuplicates(_)
DropDuplicates(rows) ==
    IF rows = <<>> THEN <<>>
    ELSE IF \E j \in 2..Len(rows) : rows[j].MobileNumber = rows[1].MobileNumber
    THEN DropDuplicates(Tail(rows))
    ELSE <<rows[1]>> \o DropDuplicates(Tail(rows))

\* rows ... df = pd.DataFrame(rows) ... sort_values ... drop_duplicates
Finalize(ms) == DropDuplicates(SortValues([i \in 1..Len(ms) |-> SummaryRow(ms[i])]))

----------------------------------------------------------------------------
(* parse_telstra_pdf: the loops *)

\* data, the record of the page's mobile
Data == mobiles[KeyIndex(mobiles, mobile)]

\* Top of "for page in pdf.pages": find the header, look the record up
SummaryPage ==
    /\ pc = "page"
    /\ pi <= Len(pdf)
    /\ \/ /\ HeaderLine(pdf[pi].text) = 0
          /\ pi' = pi + 1
          /\ UNCHANGED <<pc, mobile, mobiles>>
       \/ /\ HeaderLine(pdf[pi].text) > 0
          /\ mobile' = PageMobile(pdf[pi].text)
          /\ mobiles' = Lookup(mobiles, mobile')
          /\ pc' = "lines"
          /\ pi' = pi
    /\ li' = 1
    /\ ti' = 1
    /\ UNCHANGED <<pdf, provider, data, current_number, df, raised>>

\* One iteration of "for l in lines"; after the last line, on to the tables
SummaryLine ==
    /\ pc = "lines"
    /\ li <= Len(pdf[pi].text)
    /\ mobiles' = [mobiles EXCEPT ![KeyIndex(mobiles, mobile)] = ApplyLine(@, pdf[pi].text[li])]
    /\ li' = li + 1
    /\ IF li < Len(pdf[pi].text) THEN pc' = "lines" /\ pi' = pi
       ELSE IF pdf[pi].tables # <<>> THEN pc' = "tables" /\ pi' = pi
       ELSE pc' = "page" /\ pi' = pi + 1
    /\ UNCHANGED <<pdf, provider, data, current_number, ti, mobile, df, raised>>

\* One iteration of "for tbl in tables"; after the last table, on to the next page
SummaryTable ==
    /\ pc = "tables"
    /\ ti <= Len(pdf[pi].tables)
    /\ mobiles' = [mobiles EXCEPT ![KeyIndex(mobiles, mobile)] = ApplyTable(@, pdf[pi].tables[ti])]
    /\ ti' = ti + 1
    /\ IF ti < Len(pdf[pi].tables) THEN pc' = "tables" /\ pi' = pi
       ELSE pc' = "page" /\ pi' = pi + 1
    /\ UNCHANGED <<pdf, provider, data, current_number, li, mobile, df, raised>>

\* Build final DataFrame; return df
SummaryReturn ==
    /\ pc = "page"
    /\ pi > Len(pdf)
    /\ df' = Finalize(mobiles)
    /\ pc' = "done"
    /\ UNCHANGED <<pdf, provider, data, current_number, pi, li, ti, mobile, mobiles, raised>>

NextSummary == SummaryPage \/ SummaryLine \/ SummaryTable \/ SummaryReturn

----------------------------------------------------------------------------
(* Documents of the detailed summary mode *)

HdrA     == Line("mobile", <<"0", "4", "0", "0", " ", "9", "3", "6", " ", "2", "9", "6">>, <<>>, None, None)
HdrA61   == Line("mobile", <<"6", "1", " ", "0", "4", "0", "0", " ", "9", "3", "6", " ", "2", "9", "6">>, <<>>, None, None)
HdrShort == Line("mobile", <<"0", "4", "0", "0", " ", "1", "2", "3", "4">>, <<>>, None, None)

Amt1000 == <<"1", "0", ".", "0", "0">>
Amt1100 == <<"1", "1", ".", "0", "0">>
Amt500  == <<"5", ".", "0", "0">>
Amt550  == <<"5", ".", "5", "0">>
Amt2000 == <<"2", "0", ".", "0", "0">>
Amt2200 == <<"2", "2", ".", "0", "0">>
AmtBad  == <<"1", ".", "2", ".", "3">>

TotCall1   == Line("totcall", None, <<"Total", "call", "charges">>, Amt1000, Amt1100)
TotCall2   == Line("totcall", None, <<"Total", "call", "charges">>, Amt500, Amt550)
TotCallBad == Line("totcall", None, <<"Total", "call", "charges">>, Amt500, AmtBad)
TotSvc     == Line("totsvc", None, <<"Total", "service", "charges">>, Amt2000, Amt2200)
National5  == Line("count", None, <<"National", "Direct">>, <<"5">>, None)
Itemised   == Line("text", None, <<"Itemised", "call", "details">>, None, None)

\* Where the header of a page is put: lines in front of and behind the other lines
Header(front, back) == [front |-> front, back |-> back]

NoHeader == Header(<<>>, <<>>)

SummaryHeaders == {NoHeader, Header(<<HdrA61>>, <<>>), Header(<<>>, <<HdrShort>>)}

SummaryPool == {TotCall1, TotCall2, TotCallBad, TotSvc}

BlocksHeaders == {NoHeader, Header(<<HdrA>>, <<>>), Header(<<HdrShort>>, <<>>)}

BlocksPool == {HdrA, TotCall1, National5, Itemised}

TablesHeaders == {NoHeader, Header(<<HdrA>>, <<>>), Header(<<HdrShort>>, <<>>)}

\* Mobile WAP/Internet sessions: one volume with a thousands separator, one not a number
TblWap ==
    Table(<<<<"D", "a", "t", "e">>,
             <<"C", "a", "l", "l", " ", "T", "y", "p", "e">>,
             <<"V", "o", "l", "(", "K", "B", ")">>>>,
          << <<<<"0", "1", " ", "S", "e", "p">>,
             <<"W", "A", "P", " ", "s", "e", "s", "s", "i", "o", "n">>,
             <<"1", ",", "0", "2", "4">>>>,
             <<<<"0", "2", " ", "S", "e", "p">>,
             <<"M", "o", "b", "i", "l", "e", " ", "I", "n", "t", "e", "r", "n", "e", "t">>,
             <<"n", "/", "a">>>>,
             <<<<"0", "3", " ", "S", "e", "p">>,
             <<"I", "n", "t", "e", "r", "n", "e", "t">>>> >>)

\* Data usage overseas (GST FREE), with a row of another section and an empty location
TblOverseas ==
    Table(<<<<"D", "e", "s", "c", "r", "i", "p", "t", "i", "o", "n">>,
             <<"L", "o", "c", "a", "t", "i", "o", "n">>,
             <<"V", "o", "l", "(", "K", "B", ")">>>>,
          << <<<<"D", "a", "t", "a", " ", "u", "s", "a", "g", "e", " ", "o", "v", "e", "r", "s", "e", "a", "s", " ", "(", "G", "S", "T", " ", "F", "R", "E", "E", ")">>,
             <<" ", "F", "i", "j", "i", " ">>,
             <<"1", "0", "0">>>>,
             <<<<"I", "n", "t", "e", "r", "n", "e", "t", " ", "r", "o", "a", "m", "i", "n", "g">>,
             <<"C", "h", "i", "l", "e">>,
             <<"3">>>>,
             <<<<"D", "a", "t", "a", " ", "u", "s", "a", "g", "e", " ", "o", "v", "e", "r", "s", "e", "a", "s", " ", "(", "G", "S", "T", " ", "F", "R", "E", "E", ")">>,
             <<" ">>,
             <<"4">>>> >>)

\* "data usage overseas" without "gst free", and "wap" outside the description cell
TblOther ==
    Table(<<<<"D", "e", "s", "c", "r", "i", "p", "t", "i", "o", "n">>,
             <<"L", "o", "c", "a", "t", "i", "o", "n">>,
             <<"V", "o", "l", "(", "K", "B", ")">>>>,
          << <<<<"D", "a", "t", "a", " ", "u", "s", "a", "g", "e", " ", "o", "v", "e", "r", "s", "e", "a", "s">>,
             <<"W", "A", "P", " ", "z", "o", "n", "e">>,
             <<"7">>>> >>)

\* No description column
TblNoDesc ==
    Table(<<<<"D", "a", "t", "e">>,
             <<"V", "o", "l", "(", "K", "B", ")">>>>,
          << <<<<"W", "A", "P">>,
             <<"5">>>> >>)

\* A header row alone
TblEmpty == Table(<<<<"D", "e", "s", "c", "r", "i", "p", "t", "i", "o", "n">>,
             <<"V", "o", "l", "(", "K", "B", ")">>>>, <<>>)

TablePool == {TblWap, TblOverseas, TblOther, TblNoDesc, TblEmpty}

\* The sequences of tables of a page
TableSeqs ==
    {<<>>} \cup {<<t>> : t \in TablePool} \cup {<<TblWap, TblOverseas>>, <<TblOther, TblWap>>}

\* pdf is a document of at most MaxPages pages, each with one of the headers and one
\* of the sequences of tables tseqs, and with at most MaxBody other lines in all
IsSummaryDocOver(headers, pool, tseqs) ==
    \E n \in 0..MaxBody : \E s \in [1..n -> pool] :
        \E p \in 0..MaxPages : \E c \in Cuts(n, p) :
            \E h \in [1..p -> headers] : \E t \in [1..p -> tseqs] :
                pdf = [k \in 1..p |->
                          Page(h[k].front \o PageText(s, c, k) \o h[k].back, t[k])]

InitSummaryOver(headers, pool, tseqs) ==
    /\ IsSummaryDocOver(headers, pool, tseqs)
    /\ pc = "page"
    /\ provider = ""
    /\ data = <<>>
    /\ current_number = None
    /\ pi = 1
    /\ li = 1
    /\ ti = 1
    /\ mobile = None
    /\ mobiles = <<>>
    /\ df = <<>>
    /\ raised = ""

\* Documents that vary the text
InitSummary == InitSummaryOver(SummaryHeaders, SummaryPool, {<<TblEmpty>>})

SpecSummary == InitSummary /\ [][NextSummary]_vars

\* Documents that vary the tables
InitTables == InitSummaryOver(TablesHeaders, {}, TableSeqs)

SpecTables == InitTables /\ [][NextSummary]_vars

\* Documents that vary the blocks of a page
InitBlocks == InitSummaryOver(BlocksHeaders, BlocksPool, {<<>>, <<TblEmpty>>})

SpecBlocks == InitBlocks /\ [][NextSummary]_vars

----------------------------------------------------------------------------
(* Properties *)

RECURSIVE SumSeq(_)
SumSeq(q) == IF q = <<>> THEN 0 ELSE q[1] + SumSeq(Tail(q))

\* The r-th smallest element of the set of indices S
Kth(S, r) == CHOOSE k \in S : Cardinality({j \in S : j <= k}) = r

Lines == Flat(pdf)

(* ---- C1 ---- *)

\* Two candidate rows of one identifier with differing tax-inclusive totals leave
\* exactly one row of that identifier in the final table, with the greater total.
\* cands and final are sequences of <<identifier, tax-inclusive total>>.
DedupLaw(cands, final) ==
    \A i, j \in 1..Len(cands) :
        (cands[i][1] = cands[j][1] /\ cands[i][2] < cands[j][2]) =>
            /\ Cardinality({k \in 1..Len(final) : final[k][1] = cands[i][1]}) = 1
            /\ \A k \in 1..Len(final) :
                   final[k][1] = cands[i][1] => final[k][2] >= cands[j][2]

SimplePairs(rows) == [k \in 1..Len(rows) |-> <<rows[k].MobileNumber, rows[k].SpendInclGST>>]

\* C1: (deduplication law, simple charge mode) when parse_telstra has returned, two
\* rows it appended for the same Mobile Number with differing Spend Incl GST are
\* collapsed in the returned table into the one row with the greater total.
ClaimC1 == (pc = "done" /\ provider = "Telstra") => DedupLaw(SimplePairs(data), SimplePairs(data))

(* ---- C2 ---- *)

\* C2: extract_invoice_data returns one of Telstra, Optus, Vodafone, Unknown; a
\* Telstra marker wins over an Optus or Vodafone marker in the same text, an Optus
\* marker wins over a Vodafone marker, the parser that runs is the winner's, and with
\* no marker at all the result is Unknown with an empty table and no parser run.
TheoremC2 ==
    LET ws == FullWords(pdf) IN
    pc # "extract" =>
        /\ provider \in {"Telstra", "Optus", "Vodafone", "Unknown"}
        /\ IsTelstra(ws) => provider = "Telstra"
        /\ (~IsTelstra(ws) /\ IsOptus(ws)) => provider = "Optus"
        /\ (~IsTelstra(ws) /\ ~IsOptus(ws) /\ IsVodafone(ws)) => provider = "Vodafone"
        /\ (~IsTelstra(ws) /\ ~IsOptus(ws) /\ ~IsVodafone(ws)) =>
               /\ provider = "Unknown" /\ pc = "done"
               /\ data = <<>> /\ current_number = None /\ pi = 1 /\ li = 1 /\ raised = ""
        /\ provider = "Telstra" => pc \in {"parse_telstra", "done"}
        /\ provider = "Optus" => pc \in {"parse_optus", "done", "raised"}
        /\ provider = "Vodafone" => pc \in {"parse_vodafone", "done"}

\* A text with the markers of all three carriers went to parse_telstra
WitnessC2 ==
    /\ pc = "done" /\ provider = "Telstra"
    /\ IsOptus(FullWords(pdf)) /\ IsVodafone(FullWords(pdf))

(* ---- C3 ---- *)

\* Lines of page p that "for l in lines" has gone through
LinesDone(p) ==
    IF pc = "done" \/ p < pi THEN Len(pdf[p].text)
    ELSE IF p = pi /\ pc = "lines" THEN li - 1
    ELSE IF p = pi /\ pc = "tables" THEN Len(pdf[p].text)
    ELSE 0

\* Amount g (1: excl, 2: incl) of a "Total ... charges" line of the kind, else 0
TotalAmount(line, kind, g) ==
    IF line.kind = kind /\ TotalOk(line) THEN FloatVal(TotalGroups(line)[g]) ELSE 0

\* Sum of the amounts of the lines gone through on every page attributed to key
SumAttributed(key, kind, g) ==
    SumSeq([p \in 1..Len(pdf) |->
        IF HeaderLine(pdf[p].text) > 0 /\ PageMobile(pdf[p].text) = key
        THEN SumSeq([i \in 1..LinesDone(p) |-> TotalAmount(pdf[p].text[i], kind, g)])
        ELSE 0])

RecTotals(d) ==
    <<d.TotalCallChargesExcl, d.TotalCallChargesIncl,
      d.TotalServiceChargesExcl, d.TotalServiceChargesIncl>>

LineTotals(line) ==
    <<TotalAmount(line, "totcall", 1), TotalAmount(line, "totcall", 2),
      TotalAmount(line, "totsvc", 1), TotalAmount(line, "totsvc", 2)>>

\* The totals of the records and of the final table are the sums over the lines gone
\* through on the pages attributed to each identifier
SumsHold ==
    /\ \A k \in 1..Len(mobiles) :
          RecTotals(mobiles[k]) =
              <<SumAttributed(mobiles[k].key, "totcall", 1),
                SumAttributed(mobiles[k].key, "totcall", 2),
                SumAttributed(mobiles[k].key, "totsvc", 1),
                SumAttributed(mobiles[k].key, "totsvc", 2)>>
    /\ Len(df) = Len(mobiles)
    /\ \A r \in 1..Len(df) : \E k \in 1..Len(mobiles) :
          mobiles[k].key = df[r].MobileNumber /\ RecTotals(df[r]) = RecTotals(mobiles[k])

AccumulationStep ==
    /\ pc = "lines" =>
          /\ Len(mobiles') = Len(mobiles)
          /\ \A j \in 1..Len(mobiles) :
                RecTotals(mobiles'[j]) =
                    IF j = KeyIndex(mobiles, mobile)
                    THEN [g \in 1..4 |-> RecTotals(mobiles[j])[g] + LineTotals(pdf[pi].text[li])[g]]
                    ELSE RecTotals(mobiles[j])
    /\ pc \in {"page", "tables"} =>
          /\ Len(mobiles') >= Len(mobiles)
          /\ \A j \in 1..Len(mobiles) : RecTotals(mobiles'[j]) = RecTotals(mobiles[j])
          /\ \A j \in (Len(mobiles) + 1)..Len(mobiles') :
                /\ RecTotals(mobiles'[j]) = <<0, 0, 0, 0>>
                /\ \A i \in 1..Len(mobiles) : mobiles[i].key # mobiles'[j].key

\* C3: (accumulation law) every "Total call charges" line of a page adds its two
\* amounts to the Total Call Charges (Excl, Incl) of the record of the page's
\* normalized identifier, likewise "Total service charges"; no other step changes the
\* totals of a record, a later page of the identifier finds the record it left, and
\* the final table carries, for each subscriber, the sums over all the lines of all
\* the pages attributed to it.
TheoremC3 == [](pc = "done" => SumsHold) /\ [][AccumulationStep]_vars

\* Two pages of one subscriber, (10.00, 11.00) then (5.00, 5.50), gave (15.00, 16.50)
WitnessC3 ==
    /\ pc = "done" /\ Len(pdf) = 2
    /\ \E i \in 1..Len(pdf[1].text) : pdf[1].text[i] = TotCall1
    /\ \E i \in 1..Len(pdf[2].text) : pdf[2].text[i] = TotCall2
    /\ \E r \in 1..Len(df) :
          df[r].TotalCallChargesExcl = 1500 /\ df[r].TotalCallChargesIncl = 1650

(* ---- C4 ---- *)

\* C4: every row of the table parse_telstra_pdf returns has a Mobile Number of
\* exactly 10 characters, all digits.
ClaimC4 ==
    pc = "done" =>
        \A r \in 1..Len(df) :
            Len(df[r].MobileNumber) = KeepDigits /\ AllIn(df[r].MobileNumber, Digits)

(* ---- C5 ---- *)

\* The table has a data row with "wap" or "internet" in its description/call-type cell
HasWapMarker(tbl) ==
    DescIdx(tbl) > 0 /\ \E i \in 1..Len(tbl.rows) : IsWapRow(tbl, tbl.rows[i])

\* The table has a data row with both "data usage overseas" and "gst free"
HasOverseasMarker(tbl) == \E i \in 1..Len(tbl.rows) : IsOverseasRow(tbl.rows[i])

TableStepSafe ==
    pc = "tables" =>
        LET tbl == pdf[pi].tables[ti]
            k   == KeyIndex(mobiles, mobile)
            wap == mobiles'[k].TotalWAPVolume # mobiles[k].TotalWAPVolume
            osc == mobiles'[k].OverseasCountries # mobiles[k].OverseasCountries
        IN  /\ Len(mobiles') = Len(mobiles)
            /\ \A j \in 1..Len(mobiles) : j # k => mobiles'[j] = mobiles[j]
            /\ wap => (HasWapMarker(tbl) /\ ~HasOverseasMarker(tbl))
            /\ osc => HasOverseasMarker(tbl)
            /\ ~(wap /\ osc)
            /\ (~HasWapMarker(tbl) /\ ~HasOverseasMarker(tbl)) => mobiles' = mobiles
            /\ [mobiles'[k] EXCEPT !.TotalWAPVolume = 0, !.OverseasCountries = {}]
                  = [mobiles[k] EXCEPT !.TotalWAPVolume = 0, !.OverseasCountries = {}]

\* C5: (table classification safety) a step of "for tbl in tables" changes Total WAP
\* Volume (KB) only if a data row of the table has "wap" or "internet" in its
\* description/call-type cell and no row makes it an overseas table, changes Overseas
\* Countries only if a data row has both "data usage overseas" and "gst free", never
\* changes both, and changes nothing for a table of neither kind.
TheoremC5 == [][TableStepSafe]_vars

\* One subscriber got a WAP volume from one table and a country from another
WitnessC5 ==
    \E k \in 1..Len(mobiles) :
        mobiles[k].TotalWAPVolume = 1024 /\ mobiles[k].OverseasCountries # {}

(* ---- C6 ---- *)

\* Indices of the lines gone through so far that match the line pattern of parse_optus
OptusMatchesDone == {k \in 1..Processed : OptusMatch(Lines[k])}

\* C6: (numeric-parse error policy) parse_optus never raises; every matched line gone
\* through has its row, with its identifier, and a row whose amount float() rejects
\* has its spend fields absent.
ClaimC6 ==
    /\ raised = ""
    /\ pc \in {"parse_optus", "done"} /\ provider = "Optus" =>
          /\ Len(data) = Cardinality(OptusMatchesDone)
          /\ \A r \in 1..Len(data) :
                LET line == Lines[Kth(OptusMatchesDone, r)] IN
                /\ data[r].MobileNumber = line.num
                /\ ~FloatOk(OptusSpendToken(Lines, line)) =>
                       data[r].SpendInclGST = Absent /\ data[r].SpendExclGST = Absent

(* ---- C7 ---- *)

\* The identifier of the block line j sits in: that of the nearest line before it
\* that carries an identifier
OwnerOf(j) ==
    IF \E i \in 1..(j - 1) : Lines[i].num # None
    THEN Lines[CHOOSE i \in 1..(j - 1) :
                  Lines[i].num # None /\ \A m \in (i + 1)..(j - 1) : Lines[m].num = None].num
    ELSE None

\* The "Total Monthly Charges" lines of the identifier's own blocks
OwnTmc(number) ==
    {j \in 1..Len(Lines) : IsTmc(Lines[j]) /\ OwnerOf(j) = number}

\* The amount that the claim makes Spend Incl GST of the row of the line
OwnSpendToken(line) ==
    IF OwnTmc(line.num) # {}
    THEN DigitsDotsPrefix(Lines[Kth(OwnTmc(line.num), 1)].a1)
    ELSE line.a1

\* C7: (override) every row of parse_optus has as Spend Incl GST the amount of the
\* "Total Monthly Charges" line of its own identifier's block when there is one and
\* the nominal amount of its "identifier on $amount" line otherwise.
ClaimC7 ==
    (provider = "Optus" /\ raised = "") =>
        \A r \in 1..Len(data) :
            LET line == Lines[Kth(OptusMatchesDone, r)]
                tok  == OwnSpendToken(line)
            IN  FloatOk(tok) /\ data[r].SpendInclGST = FloatVal(tok)

(* ---- C8 ---- *)

\* The key of the nearest header at or before line i of the text, None when none
SectionKey(text, i) ==
    IF \E j \in 1..i : HeaderSpan(text[j]) # None
    THEN Normalise(HeaderSpan(text[CHOOSE j \in 1..i :
                      HeaderSpan(text[j]) # None
                      /\ \A m \in (j + 1)..i : HeaderSpan(text[m]) = None]))
    ELSE None

SumBySection(key, kind, g) ==
    SumSeq([p \in 1..Len(pdf) |->
        SumSeq([i \in 1..Len(pdf[p].text) |->
            IF SectionKey(pdf[p].text, i) = key /\ HeaderLine(pdf[p].text) > 0
            THEN TotalAmount(pdf[p].text[i], kind, g) ELSE 0])])

\* C8: (section segmentation) in the table parse_telstra_pdf returns every header
\* line of every page has a row, and a row's Total Call Charges are the sums of the
\* "Total call charges" lines that follow a header of its identifier up to the next
\* header of the page.
ClaimC8 ==
    pc = "done" =>
        /\ \A p \in 1..Len(pdf) : \A i \in 1..Len(pdf[p].text) :
              HeaderSpan(pdf[p].text[i]) # None =>
                  \E r \in 1..Len(df) :
                      df[r].MobileNumber = Normalise(HeaderSpan(pdf[p].text[i]))
        /\ \A r \in 1..Len(df) :
              /\ df[r].TotalCallChargesExcl = SumBySection(df[r].MobileNumber, "totcall", 1)
              /\ df[r].TotalCallChargesIncl = SumBySection(df[r].MobileNumber, "totcall", 2)

(* ---- C9 ---- *)

\* The line is an "itemised call details" marker
IsItemisedMarker(line) ==
    Contains(LowerAll(line.words), <<"itemised", "call", "details">>)

\* Line i of the text comes after a marker that is in the block of the page's header
AfterMarker(text, i) ==
    \E j \in (HeaderLine(text) + 1)..(i - 1) : IsItemisedMarker(text[j])

SumBeforeMarker(key, kind, g) ==
    SumSeq([p \in 1..Len(pdf) |->
        IF HeaderLine(pdf[p].text) > 0 /\ PageMobile(pdf[p].text) = key
        THEN SumSeq([i \in 1..Len(pdf[p].text) |->
                 IF AfterMarker(pdf[p].text, i) THEN 0
                 ELSE TotalAmount(pdf[p].text[i], kind, g)])
        ELSE 0])

\* The pages of the key have a count line of the field before any marker
CountedBeforeMarker(key, field) ==
    \E p \in 1..Len(pdf) : \E i \in 1..Len(pdf[p].text) :
        /\ HeaderLine(pdf[p].text) > 0 /\ PageMobile(pdf[p].text) = key
        /\ CountMatch(pdf[p].text[i]) /\ CountField(pdf[p].text[i]) = field
        /\ ~AfterMarker(pdf[p].text, i)

\* C9: (itemised-details exclusion) in the table parse_telstra_pdf returns, the lines
\* that follow an "itemised call details" marker on a page add nothing to the Total
\* Call Charges of the page's subscriber and set none of its counts.
ClaimC9 ==
    pc = "done" =>
        \A r \in 1..Len(df) :
            /\ df[r].TotalCallChargesExcl = SumBeforeMarker(df[r].MobileNumber, "totcall", 1)
            /\ df[r].TotalCallChargesIncl = SumBeforeMarker(df[r].MobileNumber, "totcall", 2)
            /\ \A f \in CountFields :
                  ~CountedBeforeMarker(df[r].MobileNumber, f) => df[r][f] = 0

(* ---- C10 ---- *)

IsIdLine(k) == Mnum(Lines[k]) # None

\* A qualifying charge line: keywords and the two amounts, and not an identifier line
IsChargeLine(k) == ~IsIdLine(k) /\ IsPlanLine(Lines[k]) /\ ChargeMatch(Lines[k])

\* Index of the most recent identifier line before line k, 0 when there is none
LastId(k) ==
    IF \E j \in 1..(k - 1) : IsIdLine(j)
    THEN CHOOSE j \in 1..(k - 1) : IsIdLine(j) /\ \A m \in (j + 1)..(k - 1) : ~IsIdLine(m)
    ELSE 0

\* The charge lines gone through so far that have an identifier line before them
EmittingLines == {k \in 1..Processed : IsChargeLine(k) /\ LastId(k) > 0}

\* C10: (current-identifier tracking) the rows of parse_telstra are, in order, those
\* of the qualifying charge lines gone through so far that have an identifier line
\* somewhere before them, on any page; each row carries the identifier of the most
\* recent identifier line before its charge line.  So a charge line before any
\* identifier line has no row, and an identifier line has none.
TheoremC10 ==
    (pc \in {"parse_telstra", "done"} /\ provider = "Telstra") =>
        /\ Len(data) = Cardinality(EmittingLines)
        /\ \A r \in 1..Len(data) :
              LET k == Kth(EmittingLines, r) IN
              /\ data[r].MobileNumber = Remove(Mnum(Lines[LastId(k)]), " ")
              /\ data[r].PlanName = Lines[k].words

\* A row on page 2 carries the identifier of a line of page 1 that superseded another
WitnessC10 ==
    /\ pc = "done" /\ provider = "Telstra" /\ Len(pdf) = 2
    /\ \E r \in 1..Len(data) :
          LET k == Kth(EmittingLines, r) IN
          /\ k > Len(pdf[1].text)
          /\ LastId(k) <= Len(pdf[1].text)
          /\ \E j \in 1..(LastId(k) - 1) :
                IsIdLine(j) /\ Mnum(Lines[j]) # Mnum(Lines[LastId(k)])

====
